---- MODULE Spec2Model ----
(***************************************************************************)
(* Sistema Otica - API (src/app.py): the SQLite store with its two tables, *)
(* the schema bootstrap criar_banco_basico, get_db with its recovery path, *)
(* and the handlers status, login, listar_usuarios, listar_empresas and    *)
(* startup_event.                                                          *)
(***************************************************************************)
EXTENDS Naturals, Integers, FiniteSets, Sequences, TLC

VARIABLES
    db,        \* committed content of the SQLite file at DB_PATH
    leaked,    \* connections opened by a call and not closed when it ended
    lockHeld,  \* a leaked connection still holds an open write transaction
    last,      \* outcome of the most recent call
    pristine,  \* no row was written by anything but criar_banco_basico
    boots,     \* criar_banco_basico calls that have returned normally on the
               \* pristine store (saturating)
    pc,        \* concurrent bootstrap: position of each caller
    cnt,       \* concurrent bootstrap: the row count each caller read
    pend,      \* concurrent bootstrap: rows of each caller's open transaction
    writer     \* concurrent bootstrap: caller holding the write lock, 0 = none

vars == <<db, leaked, lockHeld, last, pristine, boots, pc, cnt, pend, writer>>

concVars == <<pc, cnt, pend, writer>>

----------------------------------------------------------------------------
(* Bounds *)

MaxSeq == 2        \* largest AUTOINCREMENT value handed out per table
MaxLeaked == 2     \* leaked connections tracked before finalisation
MaxBoots == 2      \* boots saturates here ("two or more")
MaxClock == 1      \* issuance instants, in days

----------------------------------------------------------------------------
(* Program constants *)

TokenDays == 7

SeedEmail == "admin@oticavision.com.br"
SeedPassword == "123456"
SeedEmpresaNome == "Ótica Vision"
SeedCnpj == "12.345.678/0001-90"
SeedUsuarioNome == "Administrador"
SeedFuncao == "admin"
SeedEmpresaId == 1
DefaultFuncao == "vendedor"

(* Inputs of the requests and of the administrative path *)
OtherEmail == "ana@joalheriasol.com.br"
OtherPassword == "abc"
OtherEmpresaNome == "Joalheria Sol"
OtherUsuarioNome == "Ana Lima"
Emails == {SeedEmail, OtherEmail}
Passwords == {SeedPassword, OtherPassword}

(* hashlib.sha256(p.encode()).hexdigest() on the passwords in use *)
sha256(p) ==
    IF p = "123456"
    THEN "8d969eef6ecad3c29a3a629280e686cf0c3f5d5a86aff3ca12020c923adc6c92"
    ELSE "ba7816bf8f01cfea414140de5dae2223b00361a396177a9cb410ff61f20015ad"

----------------------------------------------------------------------------
(* The store *)

EmptyStore ==
    [tabEmp |-> FALSE, tabUsr |-> FALSE, empresas |-> {}, usuarios |-> {},
     seqEmp |-> 0, seqUsr |-> 0]

(* CREATE TABLE IF NOT EXISTS empresas / usuarios: rows are kept *)
CreateTables(s) == [s EXCEPT !.tabEmp = TRUE, !.tabUsr = TRUE]

(* the count of all sqlite_master rows but sqlite_sequence *)
CountUserTables(s) ==
    (IF s.tabEmp THEN 1 ELSE 0) + (IF s.tabUsr THEN 1 ELSE 0)

(* sqlite_master rows of type 'table': the two tables and sqlite_sequence,
   which SQLite creates with the first AUTOINCREMENT table *)
CountTables(s) ==
    (IF s.tabEmp THEN 1 ELSE 0) + (IF s.tabUsr THEN 1 ELSE 0)
    + (IF s.tabEmp \/ s.tabUsr THEN 1 ELSE 0)

(* the email column without UNIQUE *)
EmailNeverTaken(s, email) == FALSE

(* email TEXT NOT NULL UNIQUE *)
EmailTaken(s, email) == \E u \in s.usuarios : u.email = email

SeedEmpresa(id) ==
    [id |-> id, nome |-> SeedEmpresaNome, cnpj |-> SeedCnpj, ativo |-> TRUE]

SeedUsuario(id) ==
    [id |-> id, empresa_id |-> SeedEmpresaId, nome |-> SeedUsuarioNome,
     email |-> SeedEmail, senha_hash |-> sha256(SeedPassword),
     funcao |-> SeedFuncao, ativo |-> TRUE]

(* seeding without the test of the row count *)
SeedAlways(s) == TRUE

(* SELECT the row count FROM empresas ... == 0 *)
SeedNeeded(s) == Cardinality(s.empresas) = 0

InsertEmpresa(s, row) ==
    [s EXCEPT !.empresas = @ \cup {row}, !.seqEmp = row.id]

InsertUsuario(s, row) ==
    [s EXCEPT !.usuarios = @ \cup {row}, !.seqUsr = row.id]

(* criar_banco_basico on store s.  connOk: sqlite3.connect succeeds;
   locked: another connection holds the write lock.  The CREATE TABLE
   statements commit on their own; the two INSERTs form one transaction
   that is committed at the end or, when an INSERT raises, never. *)
criar_banco_basico(s, connOk, locked) ==
    IF ~connOk
    THEN [db |-> s, exc |-> "connect", leak |-> 0, lock |-> FALSE]
    ELSE LET s1 == CreateTables(s) IN
         IF ~SeedNeeded(s1)
         THEN [db |-> s1, exc |-> "none", leak |-> 0, lock |-> FALSE]
         ELSE IF locked
         THEN [db |-> s1, exc |-> "locked", leak |-> 1, lock |-> FALSE]
         ELSE LET s2 == InsertEmpresa(s1, SeedEmpresa(s1.seqEmp + 1)) IN
              IF EmailTaken(s2, SeedEmail)
              THEN [db |-> s1, exc |-> "unique", leak |-> 1, lock |-> TRUE]
              ELSE [db |-> InsertUsuario(s2, SeedUsuario(s2.seqUsr + 1)),
                    exc |-> "none", leak |-> 0, lock |-> FALSE]

(* get_db on store s.  f1, f2, f3: the successive sqlite3.connect calls
   succeed (get_db's own, criar_banco_basico's, get_db's second). *)
get_db(s, f1, f2, f3, locked) ==
    IF f1
    THEN [db |-> s, exc |-> "none", leak |-> 0, lock |-> FALSE, ran |-> 0]
    ELSE LET r == criar_banco_basico(s, f2, locked) IN
         IF r.exc # "none"
         THEN [db |-> r.db, exc |-> r.exc, leak |-> r.leak, lock |-> r.lock,
               ran |-> 0]
         ELSE IF f3
         THEN [db |-> r.db, exc |-> "none", leak |-> 0, lock |-> FALSE,
               ran |-> 1]
         ELSE [db |-> r.db, exc |-> "connect", leak |-> 0, lock |-> FALSE,
               ran |-> 1]

Min(a, b) == IF a < b THEN a ELSE b

(* the sequences do not run past MaxSeq *)
WithinBounds(s) == s.seqEmp <= MaxSeq /\ s.seqUsr <= MaxSeq

----------------------------------------------------------------------------
(* Queries *)

(* the statements of a handler fail when a table they name is missing *)
TablesMissing(s) == ~s.tabEmp \/ ~s.tabUsr

(* FROM usuarios u JOIN empresas e ON u.empresa_id = e.id *)
JoinRows(s) ==
    {ue \in s.usuarios \X s.empresas : ue[1].empresa_id = ue[2].id}

(* the lookup without its test of the active flag *)
FindLoginAnyAtivo(s, email, digest) ==
    {ue \in JoinRows(s) :
        /\ ue[1].email = email
        /\ ue[1].senha_hash = digest}

(* ... WHERE u.email = ? AND u.senha_hash = ? AND u.ativo = 1 *)
FindActiveLogin(s, email, digest) ==
    {ue \in JoinRows(s) :
        /\ ue[1].email = email
        /\ ue[1].senha_hash = digest
        /\ ue[1].ativo}

(* SELECT ... FROM empresas WHERE ativo = 1 / FROM usuarios WHERE ativo = 1 *)
CountActive(rows) == Cardinality({r \in rows : r.ativo})

(* position of a name under SQLite's BINARY collation, on the names in use *)
NameRank(n) ==
    CASE n = "Administrador" -> 1
      [] n = "Ana Lima" -> 2
      [] n = "Joalheria Sol" -> 3
      [] OTHER -> 4

(* ORDER BY nome: every order of the rows that ascends by name *)
OrderByNome(rows) ==
    {sq \in [1..Cardinality(rows) -> rows] :
        /\ \A i, j \in DOMAIN sq : i # j => sq[i] # sq[j]
        /\ \A i, j \in DOMAIN sq :
              i < j => NameRank(sq[i].nome) <= NameRank(sq[j].nome)}

(* the columns listar_usuarios selects *)
UsuarioListado(ue) ==
    [id |-> ue[1].id, nome |-> ue[1].nome, email |-> ue[1].email,
     funcao |-> ue[1].funcao, ativo |-> ue[1].ativo,
     empresa_nome |-> ue[2].nome]

----------------------------------------------------------------------------
(* Handlers, as functions of the store and of the call's inputs.  Each
   yields the store it leaves, the connections it leaves open, whether one
   of them holds a write transaction, the number of criar_banco_basico
   calls that returned, and the response. *)

StoreErrors == {"connect", "locked", "unique", "no such table"}

Outcome(g, leak, resp) ==
    [db |-> g.db, leak |-> g.leak + leak, lock |-> g.lock, ran |-> g.ran,
     resp |-> resp]

StatusError(e) ==
    [op |-> "status", status |-> "error", database |-> FALSE, erro |-> e]

status(s, f1, f2, f3, locked) ==
    LET g == get_db(s, f1, f2, f3, locked) IN
    IF g.exc # "none"
    THEN Outcome(g, 0, StatusError(g.exc))
    ELSE IF TablesMissing(g.db)
    THEN Outcome(g, 1, StatusError("no such table"))
    ELSE Outcome(g, 0,
            [op |-> "status", status |-> "ok", database |-> TRUE,
             tabelas |-> CountTables(g.db),
             empresas_ativas |-> CountActive(g.db.empresas),
             usuarios_ativos |-> CountActive(g.db.usuarios)])

(* token_data with the user's own id in the company claim *)
TokenDataOwnId(u, now) ==
    [user_id |-> u.id, empresa_id |-> u.id, email |-> u.email,
     funcao |-> u.funcao, exp |-> now + TokenDays]

(* token_data *)
TokenData(u, now) ==
    [user_id |-> u.id, empresa_id |-> u.empresa_id, email |-> u.email,
     funcao |-> u.funcao, exp |-> now + TokenDays]

(* LoginResponse *)
LoginResponse(ue, now) ==
    [token |-> TokenData(ue[1], now),
     usuario |-> [id |-> ue[1].id, nome |-> ue[1].nome,
                  email |-> ue[1].email, funcao |-> ue[1].funcao],
     empresa |-> [id |-> ue[1].empresa_id, nome |-> ue[2].nome,
                  cnpj |-> ue[2].cnpj]]

(* login with the catch-all handler alone *)
LoginCatchAll(exc) == 500

(* the except clauses of login: an HTTPException is re-raised as it is,
   anything else becomes a 500 *)
LoginCatch(exc) == IF exc = "HTTPException401" THEN 401 ELSE 500

LoginFailure(req, exc) ==
    [op |-> "login", req |-> req, code |-> LoginCatch(exc), exc |-> exc]

login(s, req, now, f1, f2, f3, locked) ==
    LET g == get_db(s, f1, f2, f3, locked) IN
    IF g.exc # "none"
    THEN Outcome(g, 0, LoginFailure(req, g.exc))
    ELSE IF TablesMissing(g.db)
    THEN Outcome(g, 1, LoginFailure(req, "no such table"))
    ELSE LET rows == FindActiveLogin(g.db, req.email, sha256(req.password)) IN
         IF rows = {}
         THEN Outcome(g, 1, LoginFailure(req, "HTTPException401"))
         ELSE Outcome(g, 0,
                 [op |-> "login", req |-> req, code |-> 200, exc |-> "none",
                  at |-> now, body |-> LoginResponse(CHOOSE ue \in rows : TRUE, now)])

ListFailure(o, e) == [op |-> o, code |-> 500, exc |-> e]

listar_usuarios(s, f1, f2, f3, locked) ==
    LET g == get_db(s, f1, f2, f3, locked) IN
    IF g.exc # "none"
    THEN {Outcome(g, 0, ListFailure("usuarios", g.exc))}
    ELSE IF TablesMissing(g.db)
    THEN {Outcome(g, 1, ListFailure("usuarios", "no such table"))}
    ELSE {Outcome(g, 0,
             [op |-> "usuarios", code |-> 200, total |-> Len(sq),
              usuarios |-> [i \in DOMAIN sq |-> UsuarioListado(sq[i])]]) :
          sq \in {q \in [1..Cardinality(JoinRows(g.db)) -> JoinRows(g.db)] :
                    /\ \A i, j \in DOMAIN q : i # j => q[i] # q[j]
                    /\ \A i, j \in DOMAIN q :
                         i < j => NameRank(q[i][1].nome) <= NameRank(q[j][1].nome)}}

listar_empresas(s, f1, f2, f3, locked) ==
    LET g == get_db(s, f1, f2, f3, locked) IN
    IF g.exc # "none"
    THEN {Outcome(g, 0, ListFailure("empresas", g.exc))}
    ELSE IF ~g.db.tabEmp
    THEN {Outcome(g, 1, ListFailure("empresas", "no such table"))}
    ELSE {Outcome(g, 0,
             [op |-> "empresas", code |-> 200, total |-> Len(sq),
              empresas |-> sq]) : sq \in OrderByNome(g.db.empresas)}

(* startup_event: the try block, then criar_banco_basico in the handler,
   whose own exception nothing catches.  f4: the handler's connect. *)
startup_event(s, f1, f2, f3, f4, locked) ==
    LET g == get_db(s, f1, f2, f3, locked) IN
    IF g.exc = "none"
    THEN Outcome(g, 0, [op |-> "startup", outcome |-> "connected",
                        exc |-> "none"])
    ELSE LET r == criar_banco_basico(g.db, f4, locked \/ g.lock) IN
         [db |-> r.db, leak |-> g.leak + r.leak, lock |-> g.lock \/ r.lock,
          ran |-> g.ran + (IF r.exc = "none" THEN 1 ELSE 0),
          resp |-> [op |-> "startup",
                    outcome |-> IF r.exc = "none" THEN "created"
                                ELSE "unhandled",
                    exc |-> r.exc]]

----------------------------------------------------------------------------

Callers == {1, 2}

Init ==
    /\ db = EmptyStore
    /\ leaked = 0
    /\ lockHeld = FALSE
    /\ last = [op |-> "init"]
    /\ pristine = TRUE
    /\ boots = 0
    /\ pc = [p \in Callers |-> "idle"]
    /\ cnt = [p \in Callers |-> 0]
    /\ pend = [p \in Callers |-> EmptyStore]
    /\ writer = 0

(* outcomes of the successive sqlite3.connect calls of one get_db call;
   a call that is not reached is listed as TRUE *)
ConnectRuns ==
    {<<TRUE, TRUE, TRUE>>, <<FALSE, FALSE, TRUE>>, <<FALSE, TRUE, FALSE>>,
     <<FALSE, TRUE, TRUE>>}

(* some connection holds the store's write lock *)
Locked == lockHeld \/ writer # 0

(* a call ends with outcome r *)
Return(r) ==
    /\ WithinBounds(r.db)
    /\ leaked + r.leak <= MaxLeaked
    /\ db' = r.db
    /\ leaked' = leaked + r.leak
    /\ lockHeld' = (lockHeld \/ r.lock)
    /\ boots' = IF pristine THEN Min(boots + r.ran, MaxBoots) ELSE 0
    /\ last' = r.resp
    /\ UNCHANGED <<pristine, concVars>>

(* a direct call of criar_banco_basico *)
Bootstrap ==
    \E f \in BOOLEAN :
        LET r == criar_banco_basico(db, f, Locked) IN
        /\ Return([db |-> r.db, leak |-> r.leak, lock |-> r.lock,
                   ran |-> IF r.exc = "none" THEN 1 ELSE 0,
                   resp |-> [op |-> "bootstrap", exc |-> r.exc]])

Status ==
    \E f \in ConnectRuns :
        /\ Return(status(db, f[1], f[2], f[3], Locked))

Login ==
    \E email \in Emails, password \in Passwords, now \in 0..MaxClock :
    \E f \in ConnectRuns :
        /\ Return(login(db, [email |-> email, password |-> password], now,
                        f[1], f[2], f[3], Locked))

ListarUsuarios ==
    \E f \in ConnectRuns :
        /\ \E r \in listar_usuarios(db, f[1], f[2], f[3], Locked) : Return(r)

ListarEmpresas ==
    \E f \in ConnectRuns :
        /\ \E r \in listar_empresas(db, f[1], f[2], f[3], Locked) : Return(r)

Startup ==
    \E f \in ConnectRuns, f4 \in BOOLEAN :
        /\ Return(startup_event(db, f[1], f[2], f[3], f4, Locked))

(* the interpreter finalises the connections no call refers to any more:
   their open transactions are rolled back and their locks released *)
Finalize ==
    /\ leaked > 0
    /\ leaked' = 0
    /\ lockHeld' = FALSE
    /\ last' = [op |-> "finalize"]
    /\ UNCHANGED <<db, pristine, boots, concVars>>

----------------------------------------------------------------------------
(* The administrative path: rows written to the same file from outside the
   handlers, within what the schema enforces (AUTOINCREMENT keys, UNIQUE
   email) and honouring the reference usuarios.empresa_id -> empresas.id. *)

AdminWrite(s) ==
    /\ ~Locked
    /\ db' = s
    /\ pristine' = FALSE
    /\ boots' = 0
    /\ last' = [op |-> "admin"]
    /\ UNCHANGED <<leaked, lockHeld, concVars>>

AdminInsertEmpresa ==
    /\ db.tabEmp
    /\ db.seqEmp < MaxSeq
    /\ AdminWrite(InsertEmpresa(db,
           [id |-> db.seqEmp + 1, nome |-> OtherEmpresaNome, cnpj |-> "",
            ativo |-> TRUE]))

AdminInsertUsuario ==
    \E email \in Emails, e \in db.empresas :
        /\ db.tabUsr
        /\ db.seqUsr < MaxSeq
        /\ ~EmailTaken(db, email)
        /\ AdminWrite(InsertUsuario(db,
               [id |-> db.seqUsr + 1, empresa_id |-> e.id,
                nome |-> OtherUsuarioNome, email |-> email,
                senha_hash |-> sha256(OtherPassword),
                funcao |-> DefaultFuncao, ativo |-> TRUE]))

AdminSetUsuarioAtivo ==
    \E u \in db.usuarios :
        AdminWrite([db EXCEPT !.usuarios =
                       (@ \ {u}) \cup {[u EXCEPT !.ativo = ~u.ativo]}])

AdminSetEmpresaAtivo ==
    \E e \in db.empresas :
        AdminWrite([db EXCEPT !.empresas =
                       (@ \ {e}) \cup {[e EXCEPT !.ativo = ~e.ativo]}])

AdminDeleteUsuario ==
    \E u \in db.usuarios :
        AdminWrite([db EXCEPT !.usuarios = @ \ {u}])

AdminDeleteEmpresa ==
    \E e \in db.empresas :
        /\ \A u \in db.usuarios : u.empresa_id # e.id
        /\ AdminWrite([db EXCEPT !.empresas = @ \ {e}])

----------------------------------------------------------------------------
(* criar_banco_basico statement by statement, for callers that run at the
   same time on the same file.  Between them there is only SQLite's
   locking: one write transaction at a time, readers see committed rows.
   login and the listings read with a single statement each and run
   beside the callers as they are. *)

Step(p, to) ==
    /\ pc' = [pc EXCEPT ![p] = to]
    /\ last' = [op |-> "step"]

(* conn = sqlite3.connect(DB_PATH) *)
BConnect(p) ==
    /\ pc[p] = "idle"
    /\ \E ok \in BOOLEAN : Step(p, IF ok THEN "ddl1" ELSE "raisedConnect")
    /\ UNCHANGED <<db, leaked, lockHeld, pristine, boots, cnt, pend, writer>>

(* CREATE TABLE IF NOT EXISTS empresas, committed on its own *)
BCreateEmpresas(p) ==
    /\ pc[p] = "ddl1"
    /\ db.tabEmp \/ ~Locked
    /\ db' = [db EXCEPT !.tabEmp = TRUE]
    /\ Step(p, "ddl2")
    /\ UNCHANGED <<leaked, lockHeld, pristine, boots, cnt, pend, writer>>

(* CREATE TABLE IF NOT EXISTS usuarios, committed on its own *)
BCreateUsuarios(p) ==
    /\ pc[p] = "ddl2"
    /\ db.tabUsr \/ ~Locked
    /\ db' = [db EXCEPT !.tabUsr = TRUE]
    /\ Step(p, "count")
    /\ UNCHANGED <<leaked, lockHeld, pristine, boots, cnt, pend, writer>>

(* SELECT the row count FROM empresas; if ... == 0 *)
BCount(p) ==
    /\ pc[p] = "count"
    /\ cnt' = [cnt EXCEPT ![p] = Cardinality(db.empresas)]
    /\ Step(p, IF SeedNeeded(db) THEN "insEmp" ELSE "commit")
    /\ UNCHANGED <<db, leaked, lockHeld, pristine, boots, pend, writer>>

(* INSERT INTO empresas: opens the write transaction once the lock is free *)
BInsertEmpresa(p) ==
    /\ pc[p] = "insEmp"
    /\ ~Locked
    /\ db.seqEmp < MaxSeq
    /\ writer' = p
    /\ pend' = [pend EXCEPT ![p] = InsertEmpresa(db, SeedEmpresa(db.seqEmp + 1))]
    /\ Step(p, "insUsr")
    /\ UNCHANGED <<db, leaked, lockHeld, pristine, boots, cnt>>

(* INSERT INTO empresas gives up waiting for the lock: database is locked *)
BLockTimeout(p) ==
    /\ pc[p] = "insEmp"
    /\ Locked
    /\ leaked < MaxLeaked
    /\ leaked' = leaked + 1
    /\ Step(p, "raisedLocked")
    /\ UNCHANGED <<db, lockHeld, pristine, boots, cnt, pend, writer>>

(* INSERT INTO usuarios; on a UNIQUE violation the call ends with the
   transaction open on a connection nothing closes *)
BInsertUsuario(p) ==
    /\ pc[p] = "insUsr"
    /\ IF EmailTaken(pend[p], SeedEmail)
       THEN /\ leaked < MaxLeaked
            /\ leaked' = leaked + 1
            /\ lockHeld' = TRUE
            /\ writer' = 0
            /\ pend' = [pend EXCEPT ![p] = EmptyStore]
            /\ Step(p, "raisedUnique")
       ELSE /\ pend[p].seqUsr < MaxSeq
            /\ pend' = [pend EXCEPT ![p] =
                           InsertUsuario(@, SeedUsuario(@.seqUsr + 1))]
            /\ Step(p, "commit")
            /\ UNCHANGED <<leaked, lockHeld, writer>>
    /\ UNCHANGED <<db, pristine, boots, cnt>>

(* conn.commit() *)
BCommit(p) ==
    /\ pc[p] = "commit"
    /\ IF writer = p
       THEN /\ db' = pend[p]
            /\ writer' = 0
            /\ pend' = [pend EXCEPT ![p] = EmptyStore]
       ELSE UNCHANGED <<db, writer, pend>>
    /\ Step(p, "close")
    /\ UNCHANGED <<leaked, lockHeld, pristine, boots, cnt>>

(* conn.close() and return *)
BClose(p) ==
    /\ pc[p] = "close"
    /\ boots' = Min(boots + 1, MaxBoots)
    /\ Step(p, "done")
    /\ UNCHANGED <<db, leaked, lockHeld, pristine, cnt, pend, writer>>

Finished(p) ==
    pc[p] \in {"done", "raisedConnect", "raisedLocked", "raisedUnique"}

NextConc ==
    \/ \E p \in Callers : BConnect(p)
    \/ \E p \in Callers : BCreateEmpresas(p)
    \/ \E p \in Callers : BCreateUsuarios(p)
    \/ \E p \in Callers : BCount(p)
    \/ \E p \in Callers : BInsertEmpresa(p)
    \/ \E p \in Callers : BLockTimeout(p)
    \/ \E p \in Callers : BInsertUsuario(p)
    \/ \E p \in Callers : BCommit(p)
    \/ \E p \in Callers : BClose(p)
    \/ Login
    \/ ListarUsuarios
    \/ ListarEmpresas
    \/ Finalize

SpecConc == Init /\ [][NextConc]_vars

Next ==
    \/ AdminInsertEmpresa
    \/ AdminInsertUsuario
    \/ AdminSetUsuarioAtivo
    \/ AdminSetEmpresaAtivo
    \/ AdminDeleteUsuario
    \/ AdminDeleteEmpresa
    \/ Bootstrap
    \/ Status
    \/ Login
    \/ ListarUsuarios
    \/ ListarEmpresas
    \/ Startup
    \/ Finalize

Spec == Init /\ [][Next]_vars

----------------------------------------------------------------------------
(* Properties *)

SeedCredentials == [email |-> SeedEmail, password |-> SeedPassword]

(* the store criar_banco_basico leaves when it is first called *)
SeedStore ==
    [tabEmp |-> TRUE, tabUsr |-> TRUE,
     empresas |-> {[id |-> 1, nome |-> "Ótica Vision",
                    cnpj |-> "12.345.678/0001-90", ativo |-> TRUE]},
     usuarios |-> {[id |-> 1, empresa_id |-> 1, nome |-> "Administrador",
                    email |-> "admin@oticavision.com.br",
                    senha_hash |-> sha256("123456"), funcao |-> "admin",
                    ativo |-> TRUE]},
     seqEmp |-> 1, seqUsr |-> 1]

(* the request of the last login names user u's email and password *)
Matches(u) ==
    /\ u.email = last.req.email
    /\ u.senha_hash = sha256(last.req.password)

(* C1: a login whose email and password digest match a user row with
   active = false never returns a token; unless the store itself raised an
   error, it is answered 401. *)
C1_InactiveNeverAuthenticates ==
    last.op = "login" =>
        \A u \in db.usuarios :
            (~u.ativo /\ Matches(u)) =>
                /\ last.code # 200
                /\ last.exc \notin StoreErrors => last.code = 401

C1_Witness ==
    /\ last.op = "login"
    /\ last.code = 401
    /\ \E u \in db.usuarios : ~u.ativo /\ Matches(u)

(* C2: a login with the email of an existing user and a password whose
   digest differs from the stored one ends in 401, not 500: the
   HTTPException raised in the try block passes the handlers unchanged.
   Only an error of the store itself is answered 500. *)
C2_WrongPasswordIs401 ==
    (/\ last.op = "login"
     /\ \E u \in db.usuarios :
            /\ u.email = last.req.email
            /\ u.senha_hash # sha256(last.req.password))
    => IF last.exc \in StoreErrors
       THEN last.code = 500
       ELSE last.code = 401 /\ last.exc = "HTTPException401"

C2_Witness ==
    /\ last.op = "login"
    /\ last.code = 401
    /\ \E u \in db.usuarios :
           /\ u.email = last.req.email
           /\ u.ativo
           /\ u.senha_hash # sha256(last.req.password)

(* C3: from an empty store, once a criar_banco_basico call has returned,
   the store holds the one seed company and the one seed user, however many
   further calls follow, and none of those calls raises on the rows. *)
C3_BootstrapIdempotent ==
    (pristine /\ boots >= 1) =>
        /\ db = SeedStore
        /\ Cardinality(db.empresas) = 1
        /\ Cardinality(db.usuarios) = 1
        /\ last.op = "bootstrap" => last.exc \in {"none", "connect"}

C3_Witness ==
    /\ pristine
    /\ boots >= 2
    /\ last.op = "bootstrap"
    /\ last.exc = "none"

(* C4 (as claimed): a criar_banco_basico call that reaches the store
   inserts exactly the seed company and the seed user when it finds no
   company row, whatever the user table holds, and changes no row
   otherwise. *)
C4_SeedsIffNoCompany ==
    [][(last'.op = "bootstrap" /\ last'.exc # "connect") =>
          IF db.empresas = {}
          THEN /\ \E e \in db'.empresas :
                     /\ db'.empresas = {e}
                     /\ e.nome = "Ótica Vision"
               /\ \E u \in db'.usuarios \ db.usuarios :
                     /\ db'.usuarios = db.usuarios \cup {u}
                     /\ u.email = "admin@oticavision.com.br"
          ELSE /\ db'.empresas = db.empresas
               /\ db'.usuarios = db.usuarios]_vars

(* C5: a successful login answers with the fields of the one active user
   row that matches the request and of the company that row references,
   and with exp seven days after issuance; after bootstrap alone, the seed
   credentials log in as role admin of the seed company. *)
C5_LoginAnswersMatchedRow ==
    /\ (last.op = "login" /\ last.code = 200) =>
          \E u \in db.usuarios, e \in db.empresas :
              /\ u.ativo /\ Matches(u) /\ e.id = u.empresa_id
              /\ \A v \in db.usuarios : (v.ativo /\ Matches(v)) => v = u
              /\ last.body.token =
                    [user_id |-> u.id, empresa_id |-> e.id,
                     email |-> u.email, funcao |-> u.funcao,
                     exp |-> last.at + 7]
              /\ last.body.usuario =
                    [id |-> u.id, nome |-> u.nome, email |-> u.email,
                     funcao |-> u.funcao]
              /\ last.body.empresa =
                    [id |-> e.id, nome |-> e.nome, cnpj |-> e.cnpj]
    /\ (/\ last.op = "login"
        /\ pristine /\ boots >= 1
        /\ last.req = SeedCredentials
        /\ last.exc \notin StoreErrors) =>
          /\ last.code = 200
          /\ last.body.token.funcao = "admin"
          /\ \E e \in db.empresas :
                /\ e.nome = "Ótica Vision"
                /\ last.body.token.empresa_id = e.id

C5_Witness ==
    /\ last.op = "login"
    /\ last.code = 200
    /\ last.req = SeedCredentials
    /\ pristine
    /\ last.body.token.funcao = "admin"

(* C6 (as claimed): on a fresh empty store status answers ok with 2 tables
   and no active company or user; after bootstrap it counts one of each,
   the seed credentials log in to "Ótica Vision" and the user listing has
   the one entry "Administrador". *)
C6_EndToEnd ==
    pristine =>
        /\ (last.op = "status" /\ db = EmptyStore
            /\ ~(last.status = "error" /\ last.erro = "connect")) =>
              /\ last.status = "ok"
              /\ last.tabelas = 2
              /\ last.empresas_ativas = 0
              /\ last.usuarios_ativos = 0
        /\ (last.op = "status" /\ boots >= 1 /\ last.status = "ok") =>
              /\ last.empresas_ativas = 1
              /\ last.usuarios_ativos = 1
        /\ (last.op = "login" /\ boots >= 1 /\ last.req = SeedCredentials
            /\ last.exc \notin StoreErrors) =>
              /\ last.code = 200
              /\ last.body.empresa.nome = "Ótica Vision"
        /\ (last.op = "usuarios" /\ boots >= 1 /\ last.code = 200) =>
              /\ last.total = 1
              /\ last.usuarios[1].nome = "Administrador"

(* C6 (amended): on a fresh empty store status answers with the error
   payload, database false, as long as no criar_banco_basico call has
   returned; once one has, status answers ok with 3 tables (empresas,
   usuarios, sqlite_sequence), one active company and one active user
   unless a connect fails, the seed credentials log in to "Ótica Vision"
   and the user listing has the one entry "Administrador". *)
C6_EndToEndAmended ==
    pristine =>
        /\ (last.op = "status" /\ boots = 0) =>
              /\ last.status = "error"
              /\ last.database = FALSE
              /\ db = EmptyStore
        /\ (last.op = "status" /\ boots >= 1) =>
              IF last.status = "ok"
              THEN /\ last.database = TRUE
                   /\ last.tabelas = 3
                   /\ last.empresas_ativas = 1
                   /\ last.usuarios_ativos = 1
              ELSE last.erro = "connect"
        /\ (last.op = "login" /\ boots >= 1 /\ last.req = SeedCredentials) =>
              IF last.code = 200
              THEN last.body.empresa.nome = "Ótica Vision"
              ELSE last.exc = "connect"
        /\ (last.op = "usuarios" /\ boots >= 1) =>
              IF last.code = 200
              THEN /\ last.total = 1
                   /\ Len(last.usuarios) = 1
                   /\ last.usuarios[1].nome = "Administrador"
              ELSE last.exc = "connect"

C6_Witness ==
    /\ pristine
    /\ boots >= 1
    /\ last.op = "status"
    /\ last.status = "ok"
    /\ last.tabelas = 3

(* C7 (as claimed): no failure of the store leaves an operation unhandled:
   login and the listings answer 500, status answers the error payload,
   and startup_event survives a failing store check, the retry included. *)
C7_NoUnhandledFault ==
    /\ (last.op = "login" /\ last.exc \in StoreErrors) => last.code = 500
    /\ (last.op \in {"usuarios", "empresas"} /\ last.code # 200) =>
          last.code = 500
    /\ (last.op = "status" /\ last.status # "ok") =>
          last.status = "error" /\ last.database = FALSE
    /\ last.op = "startup" => last.outcome \in {"connected", "created"}

(* C8 (as claimed): when a call has ended, no connection it opened is
   still open. *)
C8_NoOpenHandle == leaked = 0

(* C9 (as claimed): every user row references a company row that exists. *)
C9_ReferentialIntegrity ==
    \A u \in db.usuarios : \E e \in db.empresas : e.id = u.empresa_id

(* C10: two criar_banco_basico calls running at the same time on an empty
   store leave, once both have ended and one of them got past connecting,
   exactly one company row and one user row; and at no moment do the
   committed rows show the seed company without the seed user: every
   listing taken meanwhile has as many users as there are companies. *)
C10_ConcurrentBootstrapSafe ==
    pristine =>
        /\ ((\A p \in Callers : Finished(p))
            /\ (\E p \in Callers : pc[p] # "raisedConnect")) =>
              /\ Cardinality(db.empresas) = 1
              /\ Cardinality(db.usuarios) = 1
        /\ \A e \in db.empresas :
              \E u \in db.usuarios : u.empresa_id = e.id /\ u.email = SeedEmail
        /\ Cardinality(db.empresas) <= 1
        /\ (last.op = "usuarios" /\ last.code = 200) =>
              last.total = Cardinality(db.empresas)
        /\ (last.op = "login" /\ last.req = SeedCredentials
            /\ db.empresas # {} /\ last.exc \notin StoreErrors) =>
              last.code = 200

C10_Witness ==
    /\ pc[1] = "done"
    /\ pc[2] = "raisedUnique"
    /\ Cardinality(db.empresas) = 1
    /\ Cardinality(db.usuarios) = 1
====
